---- MODULE Spec2Model ----
(***************************************************************************)
(* Newton-Simulator: the sequential PhysicsEngine (services/physicsEngine), *)
(* the WebGpuEngine with its compute kernel (services/webGpuEngine.ts) and  *)
(* the calls the App makes into the engine (App.tsx).                       *)
(*                                                                         *)
(* Numbers.  The program computes in IEEE doubles (f32 on the device):     *)
(* every operation yields the exact result rounded to the nearest          *)
(* representable value.  The model keeps that shape on a coarser grid: a   *)
(* number v is the integer v * Scale, sums and differences are exact, and  *)
(* every product, quotient and square root is the exact result rounded to  *)
(* the nearest multiple of 1/Scale (ties to even, symmetric in the sign).  *)
(***************************************************************************)
EXTENDS Integers, Sequences, FiniteSets, TLC

VARIABLES
    particles,   \* PhysicsEngine.particles : Seq(Particle)
    config,      \* PhysicsEngine.config    : SimulationConfig
    width,       \* PhysicsEngine.width
    height,      \* PhysicsEngine.height
    op,          \* history: the last operation called and its arguments
    pairForce,   \* history: force terms [i][j] of the step() that just ran, if one did
    ticks,       \* history: number of unpaused step/applyAttractor/frame calls
    gpuConfig,   \* WebGpuEngine.config
    gpuWidth,    \* WebGpuEngine.width
    gpuHeight,   \* WebGpuEngine.height
    gpuInit,     \* history: how the call of WebGpuEngine.init ended, if there was one
    gpuDevice,   \* WebGpuEngine.device is not null
    gpuReady,    \* WebGpuEngine: device, context, pipelines and bind groups are set
    gpuBuffer,   \* contents of WebGpuEngine.particleBuffer (<<>> while it is null)
    encoded,     \* the passes of the command buffer the last render() submitted
    drawn,       \* the records the vertex stage of that command buffer loaded
    gpuOp,       \* history: the last WebGpuEngine operation and its arguments
    gpuTicks,    \* history: number of render() calls that dispatched the kernel
    appConfig,      \* App: the state config
    insight,        \* App: the state insight
    loadingInsight, \* App: the state loadingInsight
    calls,          \* the calls of getPhysicsInsight that have not settled: their prompts
    mounted,        \* App: it is mounted, the ref of its canvas is set
    animate,        \* App: the memoized animate of the last commit
    effects,        \* App: the dependencies the effects last ran with
    frames,         \* the callbacks requestAnimationFrame holds: id and function
    requestRef,     \* App: requestRef.current
    handles,        \* the last id requestAnimationFrame returned
    appOp           \* history: the last event of the App and what it did

cpuVars == <<particles, config, width, height, op, pairForce, ticks>>

gpuVars ==
    <<gpuConfig, gpuWidth, gpuHeight, gpuInit, gpuDevice, gpuReady, gpuBuffer, encoded, drawn,
      gpuOp, gpuTicks>>

insightVars == <<insight, loadingInsight, calls>>

frameVars == <<mounted, animate, effects, frames, requestRef, handles>>

appVars == <<appConfig, insightVars, frameVars, appOp>>

vars == <<cpuVars, gpuVars, appVars>>

----------------------------------------------------------------------------
(* Bounds of the model *)

FracBits == 6          \* binary digits after the point
MaxParticles == 2      \* largest particleCount a configuration carries
MaxTicks == 1          \* unpaused step/applyAttractor calls in a run
Capacity == 2          \* records of the particle buffer (1000 in setupBuffers)
WorkgroupSize == 2     \* invocations of a workgroup (64 in the kernel and in render)
MaxFrames == 4         \* ids requestAnimationFrame hands out to animate in a run

Scale == 2 ^ FracBits

----------------------------------------------------------------------------
(* Arithmetic on the grid *)

Abs(a) == IF a < 0 THEN -a ELSE a

Sign(a) == IF a < 0 THEN -1 ELSE 1

\* the quotient q of a division by b with remainder r, rounded to nearest, ties to even
RoundUp(q, r, b) == IF (2 * r > b) \/ (2 * r = b /\ q % 2 = 1) THEN q + 1 ELSE q

\* a / b for b > 0, rounded to the nearest integer, ties to even
RoundDiv(a, b) == Sign(a) * RoundUp(Abs(a) \div b, Abs(a) % b, b)

Num(n, d) == (n * Scale) \div d

Mul(a, b) == RoundDiv(a * b, Scale)

Div(a, b) == Sign(b) * RoundDiv(a * Scale, Abs(b))

RECURSIVE ISqrtIn(_, _, _)
\* largest s in lo..hi with s * s <= n
ISqrtIn(n, lo, hi) ==
    IF lo = hi THEN lo
    ELSE IF ((lo + hi + 1) \div 2) * ((lo + hi + 1) \div 2) <= n
         THEN ISqrtIn(n, (lo + hi + 1) \div 2, hi)
         ELSE ISqrtIn(n, lo, ((lo + hi + 1) \div 2) - 1)

\* the integer nearest to the root of n, given s the largest integer with s * s <= n
RoundRoot(n, s) == IF n - s * s > s THEN s + 1 ELSE s

\* Math.sqrt: the root of a / Scale on the grid, rounded to nearest
Sqrt(a) == RoundRoot(a * Scale, ISqrtIn(a * Scale, 0, 46340))

\* Math.floor of a non-negative number, as an integer
Floor(a) == a \div Scale

Half == Num(1, 2)

----------------------------------------------------------------------------
(* Math.random(): a call yields the next value of a stream of quarters     *)
(* in [0, 1); which stream an initialisation sees is not determined.       *)

RandomStreams ==
    { <<0, 3, 1, 2, 3>>,
      <<3, 2, 0, 1, 1, 3, 0>> }

Random(s, k) == Num(s[(k % Len(s)) + 1], 4)

Palettes == {"fireworks", "cyberpunk", "ocean", "inferno", "emerald", "monochrome"}

\* the number of Math.random() calls one generateColor makes
ColorDraws(palette) == IF palette = "cyberpunk" THEN 2 ELSE 1

\* generateColor: the (hue, saturation, lightness) the hsla string is made of
generateColor(palette, s, k) ==
    LET r == Random(s, k)
        r2 == Random(s, k + 1)
        f(m) == Floor(Mul(r, m * Scale))
        f2(m) == Floor(Mul(r2, m * Scale))
    IN  CASE palette = "fireworks" -> [hue |-> f(360), saturation |-> 100, lightness |-> 50]
          [] palette = "cyberpunk" ->
                [hue |-> IF r > Half THEN f2(40) + 280 ELSE f2(40) + 180,
                 saturation |-> 100, lightness |-> 50]
          [] palette = "ocean" -> [hue |-> f(60) + 170, saturation |-> 100, lightness |-> 50]
          [] palette = "inferno" -> [hue |-> f(50), saturation |-> 100, lightness |-> 50]
          [] palette = "emerald" -> [hue |-> f(60) + 100, saturation |-> 100, lightness |-> 50]
          [] palette = "monochrome" -> [hue |-> 0, saturation |-> 0, lightness |-> f(50) + 50]

\* the radius init() derives from a mass
RadiusOf(mass) == Mul(Sqrt(mass), Half)

\* NewParticle with the radius taken as the root of the mass, not half of it
NewParticle_RadiusIsRoot(i, cfg, w, h, s, k) ==
    LET mass == Mul(Mul(Random(s, k), Random(s, k + 1)), 25 * Scale) + 2 * Scale
    IN  [ id |-> i,
          x |-> Mul(Random(s, k + 2), w),
          y |-> Mul(Random(s, k + 3), h),
          vx |-> Mul(Random(s, k + 4) - Half, 2 * Scale),
          vy |-> Mul(Random(s, k + 5) - Half, 2 * Scale),
          mass |-> mass,
          radius |-> Sqrt(mass),
          color |-> generateColor(cfg.palette, s, k + 6) ]

\* the particle init() pushes at index i, reading the stream from draw k on
NewParticle(i, cfg, w, h, s, k) ==
    LET mass == Mul(Mul(Random(s, k), Random(s, k + 1)), 25 * Scale) + 2 * Scale
    IN  [ id |-> i,
          x |-> Mul(Random(s, k + 2), w),
          y |-> Mul(Random(s, k + 3), h),
          vx |-> Mul(Random(s, k + 4) - Half, 2 * Scale),
          vy |-> Mul(Random(s, k + 5) - Half, 2 * Scale),
          mass |-> mass,
          radius |-> RadiusOf(mass),
          color |-> generateColor(cfg.palette, s, k + 6) ]

RECURSIVE InitLoop(_, _, _, _, _, _)
InitLoop(ps, i, cfg, w, h, s) ==
    IF i < cfg.particleCount
    THEN InitLoop(Append(ps, NewParticle(i, cfg, w, h, s, i * (6 + ColorDraws(cfg.palette)))),
                  i + 1, cfg, w, h, s)
    ELSE ps

\* init with the loop bound off by one
init_OneMore(cfg, w, h, s) == InitLoop(<<>>, -1, cfg, w, h, s)

\* PhysicsEngine.init
init(cfg, w, h, s) == InitLoop(<<>>, 0, cfg, w, h, s)

\* PhysicsEngine.refreshColors
refreshColors(ps, cfg, s) ==
    [i \in 1..Len(ps) |->
        [ps[i] EXCEPT !.color = generateColor(cfg.palette, s, (i - 1) * ColorDraws(cfg.palette))]]

----------------------------------------------------------------------------
(* PhysicsEngine.step and PhysicsEngine.applyAttractor *)

Softening == 20

AttractorSoftening == 100

\* the force term computed from the masses alone, without G
PairForce_IgnoresG(ps, G, i, j) ==
    LET p1 == ps[i]
        p2 == ps[j]
        dx == p2.x - p1.x
        dy == p2.y - p1.y
        distSq == Mul(dx, dx) + Mul(dy, dy) + Softening * Scale
        dist == Sqrt(distSq)
        force == Div(Mul(p1.mass, p2.mass), distSq)
    IN  <<Div(Mul(force, dx), dist), Div(Mul(force, dy), dist)>>

\* the term particle i accumulates for particle j in the inner loop of step()
PairForce(ps, G, i, j) ==
    LET p1 == ps[i]
        p2 == ps[j]
        dx == p2.x - p1.x
        dy == p2.y - p1.y
        distSq == Mul(dx, dx) + Mul(dy, dy) + Softening * Scale
        dist == Sqrt(distSq)
        force == Div(Mul(Mul(G, p1.mass), p2.mass), distSq)
    IN  <<Div(Mul(force, dx), dist), Div(Mul(force, dy), dist)>>

\* the divisors of that term and of the division by mass that follows the inner loop
StepDivisors(ps, i, j) ==
    LET dx == ps[j].x - ps[i].x
        dy == ps[j].y - ps[i].y
        distSq == Mul(dx, dx) + Mul(dy, dy) + Softening * Scale
    IN  {distSq, Sqrt(distSq), ps[i].mass}

RECURSIVE SumAxis(_, _, _)
\* fx (axis 1) or fy (axis 2) once the inner loop has run over row
SumAxis(row, axis, j) ==
    IF j = 0 THEN 0 ELSE SumAxis(row, axis, j - 1) + row[j][axis]

RECURSIVE GravityLoop_MovesInPlace(_, _, _, _)
\* the first loop of step() advancing each position as soon as its velocity is known
GravityLoop_MovesInPlace(ps, F, i, G) ==
    IF i > Len(ps) THEN [ps |-> ps, F |-> F]
    ELSE LET row == [j \in 1..Len(ps) |-> IF j = i THEN <<0, 0>> ELSE PairForce(ps, G, i, j)]
             vx == ps[i].vx + Div(SumAxis(row, 1, Len(ps)), ps[i].mass)
             vy == ps[i].vy + Div(SumAxis(row, 2, Len(ps)), ps[i].mass)
         IN  GravityLoop_MovesInPlace([ps EXCEPT ![i].vx = vx, ![i].vy = vy,
                                                 ![i].x = @ + vx, ![i].y = @ + vy],
                                      Append(F, row), i + 1, G)

RECURSIVE GravityLoop(_, _, _, _)
\* the first loop of step() from index i on: velocities are written in place,
\* F collects the rows of force terms in the order they were computed
GravityLoop(ps, F, i, G) ==
    IF i > Len(ps) THEN [ps |-> ps, F |-> F]
    ELSE LET row == [j \in 1..Len(ps) |-> IF j = i THEN <<0, 0>> ELSE PairForce(ps, G, i, j)]
             fx == SumAxis(row, 1, Len(ps))
             fy == SumAxis(row, 2, Len(ps))
         IN  GravityLoop([ps EXCEPT ![i].vx = @ + Div(fx, ps[i].mass),
                                    ![i].vy = @ + Div(fy, ps[i].mass)],
                         Append(F, row), i + 1, G)

\* MoveAxis with the far wall at extent instead of extent - radius
MoveAxis_FarWallAtExtent(pos, vel, radius, extent, friction, elasticity) ==
    LET v == Mul(vel, friction)
        x == pos + v
    IN  IF x < radius THEN <<radius, Mul(v, -elasticity)>>
        ELSE IF x > extent THEN <<extent, Mul(v, -elasticity)>>
        ELSE <<x, v>>

\* one axis of the second loop of step(): friction, advance, bounce.
\* pos/vel of the particle on that axis, extent the domain size on it
MoveAxis(pos, vel, radius, extent, friction, elasticity) ==
    LET v == Mul(vel, friction)
        x == pos + v
    IN  IF x < radius THEN <<radius, Mul(v, -elasticity)>>
        ELSE IF x > extent - radius THEN <<extent - radius, Mul(v, -elasticity)>>
        ELSE <<x, v>>

\* Move with a bounce on x also reversing vy
Move_BounceFlipsBoth(p, friction, elasticity, w, h) ==
    LET ax == MoveAxis(p.x, p.vx, p.radius, w, friction, elasticity)
        ay == MoveAxis(p.y, p.vy, p.radius, h, friction, elasticity)
        hitX == ax[1] # p.x + Mul(p.vx, friction)
    IN  [p EXCEPT !.x = ax[1], !.vx = ax[2], !.y = ay[1],
                  !.vy = IF hitX THEN Mul(ay[2], -elasticity) ELSE ay[2]]

\* the body of the second loop of step() for one particle
Move(p, friction, elasticity, w, h) ==
    LET ax == MoveAxis(p.x, p.vx, p.radius, w, friction, elasticity)
        ay == MoveAxis(p.y, p.vy, p.radius, h, friction, elasticity)
    IN  [p EXCEPT !.x = ax[1], !.vx = ax[2], !.y = ay[1], !.vy = ay[2]]

\* step without the paused check
step_IgnoresPaused(ps, cfg, w, h) ==
    LET g == GravityLoop(ps, <<>>, 1, cfg.G)
        friction == Scale - cfg.friction
    IN  [ps |-> [i \in 1..Len(ps) |-> Move(g.ps[i], friction, cfg.collisionElasticity, w, h)],
         F |-> g.F]

\* PhysicsEngine.step: the particles and the force terms it leaves
step(ps, cfg, w, h) ==
    IF cfg.paused THEN [ps |-> ps, F |-> <<>>]
    ELSE LET g == GravityLoop(ps, <<>>, 1, cfg.G)
             friction == Scale - cfg.friction
         IN  [ps |-> [i \in 1..Len(ps) |-> Move(g.ps[i], friction, cfg.collisionElasticity, w, h)],
              F |-> g.F]

\* applyAttractor assigning the velocity where the code adds to it
Attract_Substitutes(p, x, y, strength) ==
    LET dx == x - p.x
        dy == y - p.y
        distSq == Mul(dx, dx) + Mul(dy, dy) + AttractorSoftening * Scale
        dist == Sqrt(distSq)
        force == Div(Mul(strength, p.mass), distSq)
    IN  [p EXCEPT !.vx = Div(Div(Mul(force, dx), dist), p.mass),
                  !.vy = Div(Div(Mul(force, dy), dist), p.mass)]

\* the body of the loop of applyAttractor for one particle
Attract(p, x, y, strength) ==
    LET dx == x - p.x
        dy == y - p.y
        distSq == Mul(dx, dx) + Mul(dy, dy) + AttractorSoftening * Scale
        dist == Sqrt(distSq)
        force == Div(Mul(strength, p.mass), distSq)
    IN  [p EXCEPT !.vx = @ + Div(Div(Mul(force, dx), dist), p.mass),
                  !.vy = @ + Div(Div(Mul(force, dy), dist), p.mass)]

\* the divisors of that body
AttractorDivisors(p, x, y) ==
    LET dx == x - p.x
        dy == y - p.y
        distSq == Mul(dx, dx) + Mul(dy, dy) + AttractorSoftening * Scale
    IN  {distSq, Sqrt(distSq), p.mass}

\* PhysicsEngine.applyAttractor
applyAttractor(ps, cfg, x, y, strength) ==
    IF cfg.paused THEN ps
    ELSE [i \in 1..Len(ps) |-> Attract(ps[i], x, y, strength)]

----------------------------------------------------------------------------
(* The values the callers pass in *)

\* G, friction, collisionElasticity and the fields only the renderer reads
Variants ==
    { [G |-> Num(5, 4), friction |-> 0, collisionElasticity |-> Half,
       trailLength |-> 35, showTrails |-> TRUE, mouseStrength |-> 200 * Scale],
      [G |-> 0, friction |-> Num(1, 4), collisionElasticity |-> Scale,
       trailLength |-> 10, showTrails |-> FALSE, mouseStrength |-> -200 * Scale] }

PaletteVals == {"fireworks", "cyberpunk"}

Configs ==
    { [ G |-> v.G, friction |-> v.friction, particleCount |-> n,
        collisionElasticity |-> v.collisionElasticity, trailLength |-> v.trailLength,
        showTrails |-> v.showTrails, paused |-> b, mouseStrength |-> v.mouseStrength,
        palette |-> p ] :
      v \in Variants, n \in 0..MaxParticles, b \in BOOLEAN, p \in PaletteVals }

\* the controls of the App hand setConfig the current configuration with one
\* field changed; here the fields the renderer and the integrator read move together
Edits(cfg) ==
    { c \in Configs :
        \/ c.particleCount = cfg.particleCount /\ c.paused = cfg.paused /\ c.palette = cfg.palette
        \/ [c EXCEPT !.particleCount = cfg.particleCount] = cfg
        \/ [c EXCEPT !.paused = cfg.paused] = cfg
        \/ [c EXCEPT !.palette = cfg.palette] = cfg }

\* window sizes <<width, height>>
DimVals == {<<12 * Scale, 12 * Scale>>, <<1 * Scale, 2 * Scale>>}

\* pointer positions
PointVals == {<<6 * Scale, 3 * Scale>>}

StrengthVals == {-200 * Scale, 200 * Scale}

----------------------------------------------------------------------------
(* The insight request: getPhysicsInsight (services/geminiService.ts) and   *)
(* handleFetchInsight (App.tsx).  A text is the sequence of its tokens; a   *)
(* JSON value is a string, null, or an object, which is the sequence of its  *)
(* <<key, value>> members in the order of insertion.                        *)

Str(text) == [type |-> "string", str |-> text, members |-> <<>>]

Null == [type |-> "null", str |-> "", members |-> <<>>]

Obj(members) == [type |-> "object", str |-> "", members |-> members]

\* the object literal { title, content }
AIInsight(title, content) == Obj(<< <<"title", Str(title)>>, <<"content", Str(content)>> >>)

\* the insight the App starts with
InitialInsight == AIInsight("Newtonian Dynamics", "Calculating mutual gravitational vectors")

\* the object the catch block returns
Fallback == AIInsight("Newton's Insights", "Objects in motion tend to stay in motion")

Tok(kind, text) == [kind |-> kind, text |-> text]

Quoted(text) == Tok("string", text)

Punct(c) == Tok(c, "")

Ws == Tok("ws", "")

NotWs(t) == t.kind # "ws"

\* the tokens of a text: white space between them carries no meaning
Tokens(text) == SelectSeq(text, NotWs)

\* the token at i is of the given kind
At(toks, i, kind) == i <= Len(toks) /\ toks[i].kind = kind

SyntaxError == [ok |-> FALSE, val |-> Null, next |-> 0]

Parsed(val, next) == [ok |-> TRUE, val |-> val, next |-> next]

\* obj[key] = val: an own key keeps its place, a new one is added last
Put(members, key, val) ==
    IF \E k \in 1..Len(members) : members[k][1] = key
       THEN [k \in 1..Len(members) |->
                IF members[k][1] = key THEN <<key, val>> ELSE members[k]]
       ELSE Append(members, <<key, val>>)

RECURSIVE ParseValue(_, _)
RECURSIVE ParseMembers(_, _, _)
RECURSIVE AfterValue(_, _, _, _)

\* after the value r of the member key: a comma and the next member, or the closing brace
AfterValue(toks, key, r, members) ==
    IF ~r.ok THEN SyntaxError
    ELSE IF At(toks, r.next, ",")
       THEN ParseMembers(toks, r.next + 1, Put(members, key, r.val))
    ELSE IF At(toks, r.next, "}")
       THEN Parsed(Obj(Put(members, key, r.val)), r.next + 1)
    ELSE SyntaxError

\* the members of an object from the key at i on
ParseMembers(toks, i, members) ==
    IF At(toks, i, "string") /\ At(toks, i + 1, ":")
       THEN AfterValue(toks, toks[i].text, ParseValue(toks, i + 2), members)
       ELSE SyntaxError

\* the JSON value that starts at token i
ParseValue(toks, i) ==
    IF At(toks, i, "string") THEN Parsed(Str(toks[i].text), i + 1)
    ELSE IF At(toks, i, "null") THEN Parsed(Null, i + 1)
    ELSE IF At(toks, i, "{")
       THEN IF At(toks, i + 1, "}")
               THEN Parsed(Obj(<<>>), i + 2)
               ELSE ParseMembers(toks, i + 1, <<>>)
    ELSE SyntaxError

\* a completion of a statement: it threw, or it yielded a value
Threw == [threw |-> TRUE, value |-> Null]

Returned(value) == [threw |-> FALSE, value |-> value]

\* JSON.parse(text): the value of the text if it is one JSON value and nothing else
JSONparse(text) ==
    LET r == ParseValue(Tokens(text), 1)
    IN  IF r.ok /\ r.next = Len(Tokens(text)) + 1 THEN Returned(r.val) ELSE Threw

\* a JSON value written without white space
RECURSIVE Write(_)
RECURSIVE WriteMembers(_, _)
WriteMembers(members, k) ==
    IF k > Len(members) THEN <<>>
    ELSE (IF k > 1 THEN <<Punct(",")>> ELSE <<>>)
         \o <<Quoted(members[k][1]), Punct(":")>> \o Write(members[k][2])
         \o WriteMembers(members, k + 1)

Write(v) ==
    IF v.type = "string" THEN <<Quoted(v.str)>>
    ELSE IF v.type = "null" THEN <<Punct("null")>>
    ELSE <<Punct("{")>> \o WriteMembers(v.members, 1) \o <<Punct("}")>>

\* a text with white space around every token
Spaced(text) == [k \in 1..(2 * Len(text) + 1) |-> IF k % 2 = 1 THEN Ws ELSE text[k \div 2]]

\* values a response may carry: an insight, and values of other shapes
JsonValues ==
    { AIInsight("Orbital Decay", "Friction drains the kinetic energy"),
      Obj(<<>>),
      Str("gravity"),
      Null,
      Obj(<< <<"title", Str("Wells")>>,
             <<"content", Obj(<< <<"text", Str("nested")>> >>)>> >>) }

\* JSON texts with the value each of them denotes; in the last text a key occurs twice
Documents ==
    { [text |-> Write(v), value |-> v] : v \in JsonValues } \cup
    { [text |-> Spaced(Write(v)), value |-> v] : v \in JsonValues } \cup
    { [text |-> << Punct("{"), Quoted("title"), Punct(":"), Quoted("Tides"), Punct(","),
                   Quoted("content"), Punct(":"), Quoted("first"), Punct(","),
                   Quoted("title"), Punct(":"), Quoted("Chaos"), Punct("}") >>,
       value |-> AIInsight("Chaos", "first")] }

\* texts that are no JSON: cut short, continued after the value, a comma before the
\* closing brace, a member without a value, a member without a colon, a colon, white
\* space alone
Malformed ==
    { SubSeq(Write(v), 1, Len(Write(v)) - 1) : v \in { u \in JsonValues : u.type = "object" } }
        \cup
    { d.text \o <<Punct("}")>> : d \in Documents } \cup
    { << Punct("{"), Quoted("title"), Punct(":"), Quoted("Tides"), Punct(","), Punct("}") >>,
      << Punct("{"), Quoted("title"), Punct(":"), Punct("}") >>,
      << Punct("{"), Quoted("title"), Quoted("Tides"), Punct("}") >>,
      << Punct(":") >>,
      << Ws >> }

\* how ai.models.generateContent settles: it rejects, or resolves to a response whose
\* text is undefined, empty, or a text
Responses ==
    { [kind |-> "rejects", hasText |-> FALSE, text |-> <<>>],
      [kind |-> "response", hasText |-> FALSE, text |-> <<>>],
      [kind |-> "response", hasText |-> TRUE, text |-> <<>>] } \cup
    { [kind |-> "response", hasText |-> TRUE, text |-> d.text] : d \in Documents } \cup
    { [kind |-> "response", hasText |-> TRUE, text |-> t] : t \in Malformed }

\* what of the configuration the prompt of getPhysicsInsight carries
Prompt(cfg) ==
    [ G |-> cfg.G, friction |-> cfg.friction, particleCount |-> cfg.particleCount,
      collisionElasticity |-> cfg.collisionElasticity ]

\* the try block of getPhysicsInsight, given how generateContent settled
TryBlock(response) ==
    IF response.kind = "rejects" THEN Threw
    ELSE IF ~response.hasText \/ response.text = <<>> THEN Threw
    ELSE JSONparse(response.text)

\* how a promise settles
Resolved(value) == [settled |-> "resolved", value |-> value]

Rejected == [settled |-> "rejected", value |-> Null]

\* getPhysicsInsight without its catch block
getPhysicsInsight_NoCatch(response) ==
    IF TryBlock(response).threw THEN Rejected ELSE Resolved(TryBlock(response).value)

\* how the promise of getPhysicsInsight(config) settles, given how generateContent did
getPhysicsInsight(response) ==
    IF TryBlock(response).threw THEN Resolved(Fallback) ELSE Resolved(TryBlock(response).value)

\* requestRef.current before the first request
Undefined == 0

\* the dependencies of the useCallback of animate
Deps(cfg) ==
    [ showTrails |-> cfg.showTrails, trailLength |-> cfg.trailLength,
      mouseStrength |-> cfg.mouseStrength, paused |-> cfg.paused ]

\* useCallback: the function it returned before if the dependencies are the same, else
\* the function of this render
Memoized(prev, cfg) ==
    IF prev.deps = Deps(cfg) THEN prev ELSE [version |-> prev.version + 1, deps |-> Deps(cfg)]

\* what the last commit holds: the dependencies the effects of that commit compare
Committed == [config |-> appConfig, animate |-> animate.version, mounted |-> mounted]

\* cancelAnimationFrame(id), guarded as the cleanup of the animation effect guards it
Cancel(pending, id) == IF id # Undefined THEN { f \in pending : f.id # id } ELSE pending

\* the insight state of the App as it is before any request
InsightIdle ==
    /\ insight = InitialInsight
    /\ loadingInsight = FALSE
    /\ calls = <<>>

\* the App, rendered with appConfig, with no request made and no frame requested
AppIdle ==
    /\ InsightIdle
    /\ mounted = TRUE
    /\ animate = [version |-> 0, deps |-> Deps(appConfig)]
    /\ effects = Committed
    /\ frames = {}
    /\ requestRef = Undefined
    /\ handles = 0
    /\ appOp = [name |-> "mount"]

\* a click on "Analyze Dynamics", which is disabled while loadingInsight: the part of
\* handleFetchInsight up to its await, and the render that follows it
FetchInsight ==
    /\ ~loadingInsight
    /\ loadingInsight' = TRUE
    /\ calls' = Append(calls, Prompt(appConfig))
    /\ appOp' = [name |-> "fetch"]
    /\ UNCHANGED <<appConfig, insight, frameVars, cpuVars, gpuVars>>

\* the sequence less its k-th element
Without(seq, k) == SubSeq(seq, 1, k - 1) \o SubSeq(seq, k + 1, Len(seq))

\* handleFetchInsight that leaves loadingInsight as it is after the await
Settle_KeepsLoading(k, response) ==
    /\ k \in 1..Len(calls)
    /\ calls' = Without(calls, k)
    /\ \E outcome \in {getPhysicsInsight(response)} :
          /\ IF outcome.settled = "resolved"
                THEN insight' = outcome.value
                ELSE UNCHANGED insight
          /\ appOp' = [name |-> "settled", response |-> response, outcome |-> outcome]
    /\ UNCHANGED <<loadingInsight, appConfig, frameVars, cpuVars, gpuVars>>

\* generateContent of the k-th call settles: getPhysicsInsight settles, and if it
\* resolved handleFetchInsight goes on after its await
Settle(k, response) ==
    /\ k \in 1..Len(calls)
    /\ calls' = Without(calls, k)
    /\ \E outcome \in {getPhysicsInsight(response)} :
          /\ IF outcome.settled = "resolved"
                THEN /\ insight' = outcome.value
                     /\ loadingInsight' = FALSE
                ELSE UNCHANGED <<insight, loadingInsight>>
          /\ appOp' = [name |-> "settled", response |-> response, outcome |-> outcome]
    /\ UNCHANGED <<appConfig, frameVars, cpuVars, gpuVars>>

----------------------------------------------------------------------------
(* The sequential engine and its callers *)

\* the configuration the App starts with
DefaultConfig ==
    [ G |-> Num(5, 4), friction |-> 0, particleCount |-> MaxParticles,
      collisionElasticity |-> Half, trailLength |-> 35, showTrails |-> TRUE,
      paused |-> FALSE, mouseStrength |-> 200 * Scale, palette |-> "fireworks" ]

\* new WebGpuEngine(config), init() not called
GpuConstructed(c) ==
    /\ gpuConfig = c
    /\ gpuWidth = 0
    /\ gpuHeight = 0
    /\ gpuInit = "not called"
    /\ gpuDevice = FALSE
    /\ gpuReady = FALSE
    /\ gpuBuffer = <<>>
    /\ encoded = <<>>
    /\ drawn = <<>>
    /\ gpuOp = [name |-> "constructor"]
    /\ gpuTicks = 0

\* new PhysicsEngine(config, width, height)
Init ==
    \E c \in Configs, d \in DimVals, s \in RandomStreams :
        /\ config = c
        /\ width = d[1]
        /\ height = d[2]
        /\ particles = init(c, d[1], d[2], s)
        /\ op = [name |-> "constructor"]
        /\ pairForce = <<>>
        /\ ticks = 0
        /\ GpuConstructed(DefaultConfig)
        /\ appConfig = DefaultConfig
        /\ AppIdle

\* a run of the engine: MaxTicks ticks, and one more call after the last of them
Running == ticks < MaxTicks \/ op.name \in {"step", "applyAttractor", "frame"}

\* the ticks of a run are not used up, or the call does nothing
CanTick == ticks < MaxTicks \/ config.paused

\* setConfig that rebuilds the store on a palette change, as on a count change
SetConfig_ReinitOnPalette(c) ==
    /\ Running
    /\ config' = c
    /\ IF Len(particles) # c.particleCount \/ config.palette # c.palette
          THEN \E s \in RandomStreams : particles' = init(c, width, height, s)
          ELSE particles' = particles
    /\ op' = [name |-> "setConfig",
              sameCount |-> (c.particleCount = Len(particles)),
              samePalette |-> (c.palette = config.palette),
              changed |-> (c # config)]
    /\ pairForce' = <<>>
    /\ UNCHANGED <<width, height, ticks, gpuVars, appVars>>

\* setConfig that rebuilds the store whenever the configuration object changed
SetConfig_ReinitOnChange(c) ==
    /\ Running
    /\ config' = c
    /\ IF c # config
          THEN \E s \in RandomStreams : particles' = init(c, width, height, s)
          ELSE particles' = particles
    /\ op' = [name |-> "setConfig",
              sameCount |-> (c.particleCount = Len(particles)),
              samePalette |-> (c.palette = config.palette),
              changed |-> (c # config)]
    /\ pairForce' = <<>>
    /\ UNCHANGED <<width, height, ticks, gpuVars, appVars>>

\* PhysicsEngine.setConfig(c)
SetConfig(c) ==
    /\ Running
    /\ config' = c
    /\ IF Len(particles) # c.particleCount
          THEN \E s \in RandomStreams : particles' = init(c, width, height, s)
          ELSE IF config.palette # c.palette
          THEN \E s \in RandomStreams : particles' = refreshColors(particles, c, s)
          ELSE particles' = particles
    /\ op' = [name |-> "setConfig",
              sameCount |-> (c.particleCount = Len(particles)),
              samePalette |-> (c.palette = config.palette),
              changed |-> (c # config)]
    /\ pairForce' = <<>>
    /\ UNCHANGED <<width, height, ticks, gpuVars, appVars>>

\* updateDimensions that moves the particles into the new bounds
UpdateDimensions_MovesInside(w, h) ==
    /\ Running
    /\ width' = w
    /\ height' = h
    /\ particles' = [i \in 1..Len(particles) |->
                       [particles[i] EXCEPT !.x = IF @ > w THEN w ELSE @,
                                            !.y = IF @ > h THEN h ELSE @]]
    /\ op' = [name |-> "updateDimensions"]
    /\ pairForce' = <<>>
    /\ UNCHANGED <<config, ticks, gpuVars, appVars>>

\* PhysicsEngine.updateDimensions(w, h)
UpdateDimensions(w, h) ==
    /\ Running
    /\ width' = w
    /\ height' = h
    /\ op' = [name |-> "updateDimensions"]
    /\ pairForce' = <<>>
    /\ UNCHANGED <<particles, config, ticks, gpuVars, appVars>>

\* PhysicsEngine.reset()
Reset ==
    /\ Running
    /\ \E s \in RandomStreams : particles' = init(config, width, height, s)
    /\ op' = [name |-> "reset"]
    /\ pairForce' = <<>>
    /\ UNCHANGED <<config, width, height, ticks, gpuVars, appVars>>

\* PhysicsEngine.step()
Step ==
    /\ Running /\ CanTick
    /\ LET r == step(particles, config, width, height)
       IN  /\ particles' = r.ps
           /\ pairForce' = r.F
    /\ op' = [name |-> "step"]
    /\ ticks' = IF config.paused THEN ticks ELSE ticks + 1
    /\ UNCHANGED <<config, width, height, gpuVars, appVars>>

\* PhysicsEngine.applyAttractor(x, y, strength)
ApplyAttractor(x, y, strength) ==
    /\ Running /\ CanTick
    /\ particles' = applyAttractor(particles, config, x, y, strength)
    /\ op' = [name |-> "applyAttractor", x |-> x, y |-> y, strength |-> strength]
    /\ pairForce' = <<>>
    /\ ticks' = IF config.paused THEN ticks ELSE ticks + 1
    /\ UNCHANGED <<config, width, height, gpuVars, appVars>>

Next ==
    \/ \E c \in Edits(config) : SetConfig(c)
    \/ \E d \in DimVals : UpdateDimensions(d[1], d[2])
    \/ Reset
    \/ Step
    \/ \E pt \in PointVals, k \in StrengthVals : ApplyAttractor(pt[1], pt[2], k)

Spec == Init /\ [][Next]_vars

----------------------------------------------------------------------------
(* The App's frame on the sequential engine *)

\* pointer states <<x, y, active>> as animate() samples them
MouseVals ==
    { [x |-> 0, y |-> 0, active |-> FALSE],
      [x |-> 6 * Scale, y |-> 3 * Scale, active |-> TRUE] }

\* what the drawing loop of animate() reads of the particles getParticles() returns
Positions(ps) == [i \in 1..Len(ps) |-> <<ps[i].x, ps[i].y>>]

\* animate() calling step before applyAttractor
Frame_StepBeforeAttractor(m) ==
    /\ Running /\ CanTick
    /\ LET r == step(particles, config, width, height)
       IN  /\ particles' = IF m.active
                           THEN applyAttractor(r.ps, config, m.x, m.y, config.mouseStrength)
                           ELSE r.ps
           /\ pairForce' = r.F
    /\ op' = [name |-> "frame", mouse |-> m, shown |-> Positions(particles')]
    /\ ticks' = IF config.paused THEN ticks ELSE ticks + 1
    /\ UNCHANGED <<config, width, height, gpuVars, appVars>>

\* the engine calls of one animate(): applyAttractor if the pointer is over the
\* canvas, then step, then the drawing loop over getParticles()
Frame(m) ==
    /\ Running /\ CanTick
    /\ LET a == IF m.active
                THEN applyAttractor(particles, config, m.x, m.y, config.mouseStrength)
                ELSE particles
           r == step(a, config, width, height)
       IN  /\ particles' = r.ps
           /\ pairForce' = r.F
    /\ op' = [name |-> "frame", mouse |-> m, shown |-> Positions(particles')]
    /\ ticks' = IF config.paused THEN ticks ELSE ticks + 1
    /\ UNCHANGED <<config, width, height, gpuVars, appVars>>

----------------------------------------------------------------------------
(* WebGpuEngine: the compute kernel.  The kernel is taken as its text reads,   *)
(* with p.vy (lines 75 and 78; struct Particle has no member vy) read as the   *)
(* y component of p.vel.  The host fills Float32Arrays; the kernel reads each   *)
(* member of its structs at the offset and in the type its declaration gives.  *)

\* what normalize() yields for the zero vector, and everything computed from it
Indeterminate == "indeterminate"

Dot(v, w) == Mul(v[1], w[1]) + Mul(v[2], w[2])

\* vec2 + vec2, vec2 - vec2, vec2 * f32, vec2 / f32
Plus(v, w) == <<v[1] + w[1], v[2] + w[2]>>

Minus(v, w) == <<v[1] - w[1], v[2] - w[2]>>

Times(v, k) == <<Mul(v[1], k), Mul(v[2], k)>>

Over(v, k) == <<Div(v[1], k), Div(v[2], k)>>

Length(v) == Sqrt(Dot(v, v))

\* normalize(v) for a vector of non-zero length
Normalize(v) == Over(v, Length(v))

\* size and alignment in bytes of the types the structs of the shaders use
SizeOf(type) == CASE type = "f32" -> 4 [] type = "u32" -> 4 [] type = "vec2" -> 8 [] type = "vec4" -> 16

AlignOf(type) == SizeOf(type)

AlignUp(offset, align) == ((offset + align - 1) \div align) * align

RECURSIVE OffsetOf(_, _)
\* byte offset of member k of a struct with the members fields
OffsetOf(fields, k) ==
    IF k = 1 THEN 0
    ELSE AlignUp(OffsetOf(fields, k - 1) + SizeOf(fields[k - 1].type), AlignOf(fields[k].type))

\* struct SimParams and struct Particle of COMPUTE_SHADER
ParamFields ==
    << [name |-> "G", type |-> "f32"], [name |-> "friction", type |-> "f32"],
       [name |-> "mousePos", type |-> "vec2"], [name |-> "mouseStrength", type |-> "f32"],
       [name |-> "particleCount", type |-> "u32"], [name |-> "width", type |-> "f32"],
       [name |-> "height", type |-> "f32"], [name |-> "dt", type |-> "f32"],
       [name |-> "elasticity", type |-> "f32"] >>

ParticleFields ==
    << [name |-> "pos", type |-> "vec2"], [name |-> "vel", type |-> "vec2"],
       [name |-> "mass", type |-> "f32"], [name |-> "padding", type |-> "f32"],
       [name |-> "color", type |-> "vec4"] >>

\* the stride of array<Particle>
ParticleStride == AlignUp(OffsetOf(ParticleFields, 5) + SizeOf("vec4"), AlignOf("vec4"))

RECURSIVE Log2(_)
\* the exponent of the largest power of two that is at most n, n >= 1
Log2(n) == IF n < 2 THEN 0 ELSE 1 + Log2(n \div 2)

\* the 32 bits of the float that holds the whole number n >= 0, read as an unsigned
\* integer: exponent 127 + e in bits 23..30, the fraction n / 2^e - 1 below
F32Bits(n) ==
    IF n = 0 THEN 0
    ELSE (127 + Log2(n)) * 2 ^ 23 + (n - 2 ^ Log2(n)) * 2 ^ (23 - Log2(n))

\* what a load of the given type yields at a byte offset of an array of floats
ReadAt(words, offset, type) ==
    CASE type = "f32" -> words[offset \div 4 + 1]
      [] type = "u32" -> F32Bits(words[offset \div 4 + 1])
      [] type = "vec2" -> <<words[offset \div 4 + 1], words[offset \div 4 + 2]>>
      [] type = "vec4" -> <<words[offset \div 4 + 1], words[offset \div 4 + 2],
                            words[offset \div 4 + 3], words[offset \div 4 + 4]>>

\* the index of the member called name
MemberAt(fields, name) == CHOOSE k \in 1..Len(fields) : fields[k].name = name

\* the struct a shader sees in the floats from byte offset base on
ReadStruct(fields, words, base) ==
    [name \in {fields[k].name : k \in 1..Len(fields)} |->
        ReadAt(words, base + OffsetOf(fields, MemberAt(fields, name)),
               fields[MemberAt(fields, name)].type)]

\* the Float32Array(16) render() writes to the parameter buffer
HostParams(cfg, m, w, h) ==
    << cfg.G, cfg.friction, m.x, m.y, IF m.active THEN cfg.mouseStrength ELSE 0,
       cfg.particleCount, w, h, Half, cfg.collisionElasticity, 0, 0, 0, 0, 0, 0 >>

\* params as the kernel reads it after render() has written the uniforms
SimParams(cfg, m, w, h) == ReadStruct(ParamFields, HostParams(cfg, m, w, h), 0)

\* the number of records of the buffer the kernel's loops run over; past the end
\* of the buffer the loop's loads are out of bounds
KernelCount(view, params) ==
    IF params.particleCount < Len(view) THEN params.particleCount ELSE Len(view)

\* normalize(diff) * forceMag of the gravity loop and of the mouse interaction
Directed(diff, forceMag) == Times(Normalize(diff), forceMag)

\* the term the kernel's gravity loop adds to totalForce for the record at i
KernelPairForce(p, other, params) ==
    Directed(Minus(other.pos, p.pos),
             Div(Mul(Mul(params.G, p.mass), other.mass),
                 Dot(Minus(other.pos, p.pos),
                     Minus(other.pos, p.pos)) + Softening * Scale))

RECURSIVE KernelGravity(_, _, _, _)
\* totalForce after the gravity loop has run over the records 1..i
KernelGravity(view, params, index, i) ==
    IF i = 0 THEN <<0, 0>>
    ELSE Plus(KernelGravity(view, params, index, i - 1),
              IF i = index THEN <<0, 0>>
              ELSE KernelPairForce(view[index], view[i], params))

\* the term of the mouse interaction
KernelMouseForce(p, params) ==
    Directed(Minus(params.mousePos, p.pos),
             Div(Mul(params.mouseStrength, p.mass),
                 Dot(Minus(params.mousePos, p.pos),
                     Minus(params.mousePos, p.pos)) + AttractorSoftening * Scale))

\* p.vel += accel * dt; p.vel *= (1.0 - friction); p.pos += p.vel
KernelAdvance(p, vel) == [p EXCEPT !.vel = vel, !.pos = Plus(p.pos, vel)]

KernelIntegrate(p, totalForce, params) ==
    KernelAdvance(p, Times(Plus(p.vel, Times(Over(totalForce, p.mass), params.dt)),
                           Scale - params.friction))

\* one axis of the kernel's boundary collisions
KernelBounce(pos, vel, radius, extent, elasticity) ==
    IF pos < radius THEN <<radius, Mul(vel, -elasticity)>>
    ELSE IF pos > extent - radius THEN <<extent - radius, Mul(vel, -elasticity)>>
    ELSE <<pos, vel>>

\* the record with both axes bounced
KernelBounced(p, bx, by) == [p EXCEPT !.pos = <<bx[1], by[1]>>, !.vel = <<bx[2], by[2]>>]

\* the boundary collisions, with radius = sqrt(p.mass) * 0.5
KernelCollide(p, params) ==
    KernelBounced(p,
        KernelBounce(p.pos[1], p.vel[1], Mul(Sqrt(p.mass), Half), params.width, params.elasticity),
        KernelBounce(p.pos[2], p.vel[2], Mul(Sqrt(p.mass), Half), params.height, params.elasticity))

\* the divisors of the invocation for index: distSq and the length normalize divides
\* by, for every other record and for the mouse, and the mass
KernelDivisors(view, params, index) ==
    { Dot(Minus(view[i].pos, view[index].pos), Minus(view[i].pos, view[index].pos))
        + Softening * Scale : i \in 1..KernelCount(view, params) \ {index} }
    \cup { Length(Minus(view[i].pos, view[index].pos)) :
                i \in 1..KernelCount(view, params) \ {index} }
    \cup { Dot(Minus(params.mousePos, view[index].pos), Minus(params.mousePos, view[index].pos))
                + AttractorSoftening * Scale,
           Length(Minus(params.mousePos, view[index].pos)),
           view[index].mass }

\* no normalize() of the invocation has a vector of length zero or an indeterminate
\* operand; a load past the end of the buffer that yields zeros has diff = -p.pos
\* and mass 0
KernelDefined(view, params, index) ==
    /\ \A i \in 1..KernelCount(view, params) : view[i].pos # Indeterminate
    /\ \A i \in 1..KernelCount(view, params) :
            i # index => Length(Minus(view[i].pos, view[index].pos)) # 0
    /\ Length(Minus(params.mousePos, view[index].pos)) # 0
    /\ params.particleCount > Len(view) => Length(view[index].pos) # 0

\* fn main for global_invocation_id.x = index - 1: the record it stores, given the
\* buffer as its loads see it
main(view, params, index) ==
    IF ~KernelDefined(view, params, index)
    THEN [view[index] EXCEPT !.pos = Indeterminate, !.vel = Indeterminate]
    ELSE KernelCollide(
            KernelIntegrate(view[index],
                Plus(KernelGravity(view, params, index, KernelCount(view, params)),
                     KernelMouseForce(view[index], params)),
                params),
            params)

\* the invocations of a dispatch run in no fixed order: all of them load before any
\* stores (order <<>>), or they run one after another in the order given
Schedules(n) ==
    {<<>>} \cup { o \in [1..n -> 1..n] : \A i, j \in 1..n : o[i] = o[j] => i = j }

RECURSIVE RunInOrder(_, _, _, _)
RunInOrder(buf, params, order, k) ==
    IF k > Len(order) THEN buf
    ELSE RunInOrder([buf EXCEPT ![order[k]] = main(buf, params, order[k])], params, order, k + 1)

\* the invocations of dispatchWorkgroups(Math.ceil(particleCount / 64))
Invocations(cfg) ==
    WorkgroupSize * ((cfg.particleCount + WorkgroupSize - 1) \div WorkgroupSize)

\* the invocations that get past "if (index >= params.particleCount) { return; }"
Invoked(cfg, params) ==
    IF Invocations(cfg) < params.particleCount THEN Invocations(cfg) ELSE params.particleCount

\* those of them whose record lies in the buffer
InvokedInside(buf, cfg, params) ==
    IF Invoked(cfg, params) < Len(buf) THEN Invoked(cfg, params) ELSE Len(buf)

\* what the accesses of a dispatch past the end of the buffer do: there are none;
\* or every such load yields zeros and every such store is dropped; or they read and
\* write records of the buffer, and what the dispatch leaves is not determined
AccessOutcomes(buf, cfg, params) ==
    IF Invoked(cfg, params) = 0 THEN {"inside"}
    ELSE IF params.particleCount <= Len(buf) /\ Invoked(cfg, params) <= Len(buf) THEN {"inside"}
    ELSE {"zeros", "any"}

\* the buffer after a dispatch whose accesses past the end touched records of it
Undetermined(buf, cfg, params) ==
    [i \in 1..Len(buf) |->
        IF i <= Invoked(cfg, params) \/ Invoked(cfg, params) > Len(buf)
        THEN [buf[i] EXCEPT !.pos = Indeterminate, !.vel = Indeterminate]
        ELSE buf[i]]

\* the buffer after the invocations 1..count have run: all of them load before any
\* stores, or they run in the order given
Dispatch(buf, params, order, count) ==
    IF order = <<>>
    THEN [i \in 1..Len(buf) |-> IF i <= count THEN main(buf, params, i) ELSE buf[i]]
    ELSE RunInOrder(buf, params, order, 1)

\* the buffer after the compute pass
ComputePass(buf, cfg, params, order, outcome) ==
    IF outcome = "any" THEN Undetermined(buf, cfg, params)
    ELSE Dispatch(buf, params, order, InvokedInside(buf, cfg, params))

\* what a load of vs_main past the end of the buffer yields
OutOfBuffer == "out of buffer"

\* the records vs_main loads for draw(4, particleCount)
RenderPass(buf, cfg) ==
    [i \in 1..cfg.particleCount |-> IF i <= Len(buf) THEN buf[i] ELSE OutOfBuffer]

\* render() that encodes its render pass before its compute pass
EncodedPasses_RenderFirst(cfg) == IF ~cfg.paused THEN <<"render", "compute">> ELSE <<"render">>

\* the passes render() encodes
EncodedPasses(cfg) == IF ~cfg.paused THEN <<"compute", "render">> ELSE <<"render">>

HasCompute(passes) == \E k \in 1..Len(passes) : passes[k] = "compute"

RECURSIVE Submit(_, _, _, _, _, _, _)
\* queue.submit: the passes from k on run one after the other on the buffer
Submit(passes, k, st, cfg, params, order, outcome) ==
    IF k > Len(passes) THEN st
    ELSE Submit(passes, k + 1,
                IF passes[k] = "compute"
                THEN [st EXCEPT !.buf = ComputePass(st.buf, cfg, params, order, outcome)]
                ELSE [st EXCEPT !.drawn = RenderPass(st.buf, cfg)],
                cfg, params, order, outcome)

\* WebGpuEngine.render(mouse): returns at once unless device, context, pipelines and
\* bind groups are set
GpuRender(m) ==
    /\ gpuTicks < MaxTicks \/ gpuConfig.paused \/ ~gpuReady
    /\ IF ~gpuReady
          THEN /\ gpuOp' = [name |-> "render", mouse |-> m, accesses |-> "none"]
               /\ UNCHANGED <<gpuBuffer, encoded, drawn, gpuTicks>>
          ELSE /\ encoded' = EncodedPasses(gpuConfig)
               /\ \E params \in {SimParams(gpuConfig, m, gpuWidth, gpuHeight)} :
                  \E outcome \in IF HasCompute(encoded')
                                  THEN AccessOutcomes(gpuBuffer, gpuConfig, params)
                                  ELSE {"inside"} :
                  \E o \in IF HasCompute(encoded') /\ outcome # "any"
                            THEN Schedules(InvokedInside(gpuBuffer, gpuConfig, params))
                            ELSE {<<>>} :
                  \E r \in {Submit(encoded', 1, [buf |-> gpuBuffer, drawn |-> <<>>],
                                    gpuConfig, params, o, outcome)} :
                     /\ gpuBuffer' = r.buf
                     /\ drawn' = r.drawn
                     /\ gpuOp' = [name |-> "render", mouse |-> m, accesses |-> outcome,
                                  params |-> params]
               /\ gpuTicks' = IF gpuConfig.paused THEN gpuTicks ELSE gpuTicks + 1
    /\ UNCHANGED <<gpuConfig, gpuWidth, gpuHeight, gpuInit, gpuDevice, gpuReady, cpuVars, appVars>>

----------------------------------------------------------------------------
(* WebGpuEngine: the host side *)

\* hue2rgb of hslToRgb, for the p and q of a color
hue2rgbWrapped(p, q, t) ==
    IF t < Div(Scale, 6 * Scale) THEN p + Mul(Mul(q - p, 6 * Scale), t)
    ELSE IF t < Half THEN q
    ELSE IF t < Div(2 * Scale, 3 * Scale)
         THEN p + Mul(Mul(q - p, Div(2 * Scale, 3 * Scale) - t), 6 * Scale)
    ELSE p

hue2rgb(p, q, t) ==
    hue2rgbWrapped(p, q, IF t < 0 THEN t + Scale ELSE IF t > Scale THEN t - Scale ELSE t)

\* q of hslToRgb
hslQ(s, l) == IF l < Half THEN Mul(l, Scale + s) ELSE l + s - Mul(l, s)

\* WebGpuEngine.hslToRgb
hslToRgb(h, s, l) ==
    IF s = 0 THEN <<l, l, l, Scale>>
    ELSE << hue2rgb(2 * l - hslQ(s, l), hslQ(s, l), h + Div(Scale, 3 * Scale)),
            hue2rgb(2 * l - hslQ(s, l), hslQ(s, l), h),
            hue2rgb(2 * l - hslQ(s, l), hslQ(s, l), h - Div(Scale, 3 * Scale)),
            Scale >>

\* h, s, l of WebGpuEngine.generateColor before the conversion
gpuHsl(palette, s, k) ==
    CASE palette = "fireworks" -> <<Mul(Random(s, k), 360 * Scale), 100 * Scale, 50 * Scale>>
      [] palette = "cyberpunk" ->
            << IF Random(s, k) > Half THEN Mul(Random(s, k + 1), 40 * Scale) + 280 * Scale
               ELSE Mul(Random(s, k + 1), 40 * Scale) + 180 * Scale,
               100 * Scale, 50 * Scale >>
      [] palette = "ocean" -> <<Mul(Random(s, k), 60 * Scale) + 170 * Scale, 100 * Scale, 50 * Scale>>
      [] palette = "inferno" -> <<Mul(Random(s, k), 50 * Scale), 100 * Scale, 50 * Scale>>
      [] palette = "emerald" -> <<Mul(Random(s, k), 60 * Scale) + 100 * Scale, 100 * Scale, 50 * Scale>>
      [] palette = "monochrome" -> <<0, 0, Mul(Random(s, k), 50 * Scale) + 50 * Scale>>

\* hslToRgb(h / 360, s / 100, l / 100)
gpuRgb(hsl) ==
    hslToRgb(Div(hsl[1], 360 * Scale), Div(hsl[2], 100 * Scale), Div(hsl[3], 100 * Scale))

\* WebGpuEngine.generateColor
gpuGenerateColor(palette, s, k) == gpuRgb(gpuHsl(palette, s, k))

\* the 12 floats setupBuffers writes for one record, reading the stream from draw k on
InitialRecord(cfg, w, h, s, k) ==
    << Mul(Random(s, k), w), Mul(Random(s, k + 1), h),
       Mul(Random(s, k + 2) - Half, 2 * Scale), Mul(Random(s, k + 3) - Half, 2 * Scale),
       Mul(Mul(Random(s, k + 4), Random(s, k + 5)), 25 * Scale) + 2 * Scale,
       0, 0, 0 >>
    \o gpuGenerateColor(cfg.palette, s, k + 6)

RECURSIVE InitialData(_, _, _, _, _)
\* initialData of setupBuffers once its loop has run over the records 0..i-1
InitialData(cfg, w, h, s, i) ==
    IF i = 0 THEN <<>>
    ELSE InitialData(cfg, w, h, s, i - 1)
         \o InitialRecord(cfg, w, h, s, (i - 1) * (6 + ColorDraws(cfg.palette)))

\* the array<Particle> the shaders see in a buffer holding the floats words
ParticleArray(words) ==
    [i \in 1..((Len(words) * 4) \div ParticleStride) |->
        ReadStruct(ParticleFields, words, (i - 1) * ParticleStride)]

\* the particle buffer setupBuffers creates and fills
setupBuffers(cfg, w, h, s) == ParticleArray(InitialData(cfg, w, h, s, Capacity))

\* how a call of init(canvas) ends: resolved; or rejected because requestAdapter
\* gave none, because requestDevice rejected, or because the canvas gave no
\* "webgpu" context and configure was called on null
InitOutcomes == {"resolved", "no adapter", "no device", "no context"}

\* WebGpuEngine.init(canvas), for a canvas of w x h; its caller calls it once.
\* device is assigned once requestDevice has resolved, the rest once setupPipelines
\* and setupBuffers have run
GpuInit(outcome, w, h) ==
    /\ gpuInit = "not called"
    /\ gpuInit' = outcome
    /\ gpuDevice' = (outcome \in {"resolved", "no context"})
    /\ gpuReady' = (outcome = "resolved")
    /\ IF outcome = "resolved"
          THEN /\ gpuWidth' = w
               /\ gpuHeight' = h
               /\ \E s \in RandomStreams : gpuBuffer' = setupBuffers(gpuConfig, w, h, s)
          ELSE UNCHANGED <<gpuWidth, gpuHeight, gpuBuffer>>
    /\ gpuOp' = [name |-> "init", rejected |-> (outcome # "resolved")]
    /\ UNCHANGED <<gpuConfig, encoded, drawn, gpuTicks, cpuVars, appVars>>

\* a run of the parallel engine: MaxTicks dispatches, and one more call after the
\* last of them
GpuRunning == gpuTicks < MaxTicks \/ gpuOp.name = "render"

\* setConfig whose setupBuffers does not return when there is no device
GpuSetConfig_NoDeviceCheck(c) ==
    /\ GpuRunning
    /\ gpuConfig' = c
    /\ IF gpuConfig.palette # c.palette \/ gpuConfig.particleCount # c.particleCount
          THEN \E s \in RandomStreams : gpuBuffer' = setupBuffers(c, gpuWidth, gpuHeight, s)
          ELSE gpuBuffer' = gpuBuffer
    /\ gpuOp' = [name |-> "setConfig",
                 sameCount |-> (c.particleCount = gpuConfig.particleCount),
                 samePalette |-> (c.palette = gpuConfig.palette)]
    /\ UNCHANGED <<gpuWidth, gpuHeight, gpuInit, gpuDevice, gpuReady, encoded, drawn, gpuTicks,
                   cpuVars, appVars>>

\* WebGpuEngine.setConfig(c)
GpuSetConfig(c) ==
    /\ GpuRunning
    /\ gpuConfig' = c
    /\ IF (gpuConfig.palette # c.palette \/ gpuConfig.particleCount # c.particleCount) /\ gpuDevice
          THEN \E s \in RandomStreams : gpuBuffer' = setupBuffers(c, gpuWidth, gpuHeight, s)
          ELSE gpuBuffer' = gpuBuffer
    /\ gpuOp' = [name |-> "setConfig",
                 sameCount |-> (c.particleCount = gpuConfig.particleCount),
                 samePalette |-> (c.palette = gpuConfig.palette)]
    /\ UNCHANGED <<gpuWidth, gpuHeight, gpuInit, gpuDevice, gpuReady, encoded, drawn, gpuTicks,
                   cpuVars, appVars>>

\* the configurations handed to the parallel engine: no particles, one, and one
\* more than its buffer holds
GpuConfigs ==
    { [DefaultConfig EXCEPT !.particleCount = n, !.paused = b, !.palette = p] :
      n \in {0, 1, Capacity + 1}, b \in BOOLEAN, p \in PaletteVals }

\* configurations that differ from cfg in one control
GpuEdits(cfg) ==
    { c \in GpuConfigs :
        \/ c.particleCount = cfg.particleCount /\ c.paused = cfg.paused /\ c.palette = cfg.palette
        \/ [c EXCEPT !.particleCount = cfg.particleCount] = cfg
        \/ [c EXCEPT !.paused = cfg.paused] = cfg
        \/ [c EXCEPT !.palette = cfg.palette] = cfg }

\* new WebGpuEngine(c); the sequential engine holds no particles
InitGpu ==
    /\ \E c \in GpuConfigs : GpuConstructed(c)
    /\ particles = <<>>
    /\ config = [DefaultConfig EXCEPT !.particleCount = 0]
    /\ width = 12 * Scale
    /\ height = 12 * Scale
    /\ op = [name |-> "constructor"]
    /\ pairForce = <<>>
    /\ ticks = 0
    /\ appConfig = DefaultConfig
    /\ AppIdle

NextGpu ==
    \/ \E outcome \in InitOutcomes : GpuInit(outcome, 12 * Scale, 12 * Scale)
    \/ \E c \in GpuEdits(gpuConfig) : GpuSetConfig(c)
    \/ \E m \in MouseVals : GpuRender(m)

SpecGpu == InitGpu /\ [][NextGpu]_vars

----------------------------------------------------------------------------
(* The two strategies on equal inputs *)

Particle(id, x, y, vx, vy, mass) ==
    [ id |-> id, x |-> x, y |-> y, vx |-> vx, vy |-> vy, mass |-> mass,
      radius |-> RadiusOf(mass),
      color |-> [hue |-> 0, saturation |-> 100, lightness |-> 50] ]

\* the record of the particle buffer that holds particle p
Record(p) ==
    [ pos |-> <<p.x, p.y>>, vel |-> <<p.vx, p.vy>>, mass |-> p.mass, padding |-> 0,
      color |-> p.color ]

Upload(ps) == [i \in 1..Len(ps) |-> Record(ps[i])]

\* stores of particles in a 12 x 12 domain
Scenarios ==
    { \* masses 10 and 20, displacement (3, 4), at rest
      << Particle(0, 4 * Scale, 4 * Scale, 0, 0, 10 * Scale),
         Particle(1, 7 * Scale, 8 * Scale, 0, 0, 20 * Scale) >>,
      \* two masses whose products with G are not on the grid
      << Particle(0, 5 * Scale, 5 * Scale, Half, 0, 10 * Scale + 1),
         Particle(1, 6 * Scale, 7 * Scale, 0, -Half, 20 * Scale + 3) >>,
      \* radius 1, one unit left of x = radius, moving left
      << Particle(0, 0, 6 * Scale, -2 * Scale, 0, 4 * Scale) >>,
      \* radius 1, beyond the far wall of x and the near wall of y
      << Particle(0, 11 * Scale + Half, Half, Scale, -Scale, 4 * Scale) >>,
      \* radius 1, inside on x, beyond the far wall of y
      << Particle(0, 5 * Scale, 11 * Scale, Half, 2 * Scale, 4 * Scale) >>,
      \* inside, staying inside
      << Particle(0, 5 * Scale, 5 * Scale, Scale, -Scale, 9 * Scale) >>,
      \* two particles at the same place, which is where the pointer is
      << Particle(0, 6 * Scale, 3 * Scale, 0, 0, 4 * Scale),
         Particle(1, 6 * Scale, 3 * Scale, 0, 0, 9 * Scale) >> }

\* G, friction, collisionElasticity of the solver runs
SolverVariants ==
    { [G |-> Scale, friction |-> 0, collisionElasticity |-> Half],
      [G |-> Num(5, 4), friction |-> Num(1, 4), collisionElasticity |-> Scale] }

\* both engines hold the same particles, configuration and domain
InitSolver ==
    \E ps \in Scenarios, v \in SolverVariants, b \in BOOLEAN, k \in StrengthVals :
        /\ particles = ps
        /\ config = [DefaultConfig EXCEPT !.G = v.G, !.friction = v.friction,
                        !.collisionElasticity = v.collisionElasticity,
                        !.particleCount = Len(ps), !.paused = b, !.mouseStrength = k]
        /\ width = 12 * Scale
        /\ height = 12 * Scale
        /\ op = [name |-> "constructor"]
        /\ pairForce = <<>>
        /\ ticks = 0
        /\ gpuConfig = config
        /\ gpuWidth = width
        /\ gpuHeight = height
        /\ gpuInit = "resolved"
        /\ gpuDevice = TRUE
        /\ gpuReady = TRUE
        /\ gpuBuffer = Upload(ps)
        /\ encoded = <<>>
        /\ drawn = <<>>
        /\ gpuOp = [name |-> "init"]
        /\ gpuTicks = 0
        /\ appConfig = DefaultConfig
        /\ AppIdle

\* the strengths applyAttractor is called with: repulsion, attraction, none
AttractorStrengths == StrengthVals \cup {0}

NextSolver ==
    \/ Step
    \/ \E pt \in PointVals, k \in AttractorStrengths : ApplyAttractor(pt[1], pt[2], k)
    \/ \E m \in MouseVals : Frame(m)
    \/ \E m \in MouseVals : GpuRender(m)

SpecSolver == InitSolver /\ [][NextSolver]_vars

----------------------------------------------------------------------------
(* The App and its insight request *)

\* the App has mounted and its controls have set a configuration; no request has
\* been made
InitInsight ==
    \E c \in Configs, s \in RandomStreams :
        /\ appConfig = c
        /\ AppIdle
        /\ config = c
        /\ width = 12 * Scale
        /\ height = 12 * Scale
        /\ particles = init(c, width, height, s)
        /\ op = [name |-> "constructor"]
        /\ pairForce = <<>>
        /\ ticks = 0
        /\ GpuConstructed(DefaultConfig)

NextInsight ==
    \/ FetchInsight
    \/ \E k \in 1..Len(calls), response \in Responses : Settle(k, response)

SpecInsight == InitInsight /\ [][NextInsight]_vars

\* every call of generateContent settles
SpecInsightFair ==
    SpecInsight /\ WF_vars(\E k \in 1..Len(calls), response \in Responses : Settle(k, response))

----------------------------------------------------------------------------
(* The App's animation loop (App.tsx): the memoized animate, the effects    *)
(* that depend on config and on animate, and the frames they request.       *)
(* React commits a render and runs the effects of that render later, before *)
(* it renders again; a frame may be delivered in between.                   *)

\* engine.setConfig(c) as the "Update Engine Config" effect calls it
setConfig(c) ==
    /\ config' = c
    /\ IF Len(particles) # c.particleCount
          THEN \E s \in RandomStreams : particles' = init(c, width, height, s)
          ELSE IF config.palette # c.palette
          THEN \E s \in RandomStreams : particles' = refreshColors(particles, c, s)
          ELSE particles' = particles
    /\ op' = [name |-> "setConfig",
              sameCount |-> (c.particleCount = Len(particles)),
              samePalette |-> (c.palette = config.palette),
              changed |-> (c # config)]
    /\ pairForce' = <<>>
    /\ UNCHANGED <<width, height, ticks>>

\* the body of animate() when canvas, context and engine are there, for the pointer
\* state m and the mouseStrength the callback has captured
Draw(m, strength) ==
    /\ \E r \in {step(IF m.active
                         THEN applyAttractor(particles, config, m.x, m.y, strength)
                         ELSE particles,
                      config, width, height)} :
          /\ particles' = r.ps
          /\ pairForce' = r.F
    /\ op' = [name |-> "frame", mouse |-> m, shown |-> Positions(particles')]
    /\ ticks' = IF config.paused THEN ticks ELSE ticks + 1
    /\ UNCHANGED <<config, width, height>>

\* the browser runs the pending callback f: animate() as f captured it, which ends by
\* requesting the next frame for itself and storing the id
DeliverFrame(f, m) ==
    /\ f \in frames
    /\ handles < MaxFrames
    /\ IF mounted
          THEN /\ Draw(m, f.animate.deps.mouseStrength)
               /\ appOp' = [name |-> "frame", id |-> f.id, steps |-> 1]
          ELSE /\ UNCHANGED cpuVars
               /\ appOp' = [name |-> "frame", id |-> f.id, steps |-> 0]
    /\ handles' = handles + 1
    /\ frames' = (frames \ {f}) \cup {[id |-> handles', animate |-> f.animate]}
    /\ requestRef' = handles'
    /\ UNCHANGED <<appConfig, insightVars, mounted, animate, effects, gpuVars>>

\* a control calls setConfig(c): the App renders with c and React commits the render
EditConfig(c) ==
    /\ mounted /\ effects = Committed
    /\ handles < MaxFrames
    /\ c # appConfig
    /\ appConfig' = c
    /\ animate' = Memoized(animate, c)
    /\ appOp' = [name |-> "render"]
    /\ UNCHANGED <<insightVars, mounted, effects, frames, requestRef, handles, cpuVars,
                   gpuVars>>

\* the App is removed: React commits that and the ref of the canvas is null
Unmount ==
    /\ mounted /\ effects = Committed
    /\ mounted' = FALSE
    /\ appOp' = [name |-> "unmount"]
    /\ UNCHANGED <<appConfig, insightVars, animate, effects, frames, requestRef, handles,
                   cpuVars, gpuVars>>

\* the animation effect whose cleanup cancels nothing
FlushEffects_NoCancel ==
    /\ effects # Committed
    /\ effects' = Committed
    /\ IF mounted /\ effects.config # appConfig
          THEN setConfig(appConfig)
          ELSE UNCHANGED cpuVars
    /\ IF ~mounted
          THEN UNCHANGED <<frames, requestRef, handles>>
          ELSE IF effects.animate # animate.version
          THEN /\ handles' = handles + 1
               /\ frames' = frames \cup {[id |-> handles', animate |-> animate]}
               /\ requestRef' = handles'
          ELSE UNCHANGED <<frames, requestRef, handles>>
    /\ appOp' = [name |-> "effects"]
    /\ UNCHANGED <<appConfig, insightVars, mounted, animate, gpuVars>>

\* React runs the effects of the last commit: engine.setConfig if config changed, then
\* the cleanup of the animation effect and the effect itself if animate changed; after
\* an unmount the cleanup alone
FlushEffects ==
    /\ effects # Committed
    /\ effects' = Committed
    /\ IF mounted /\ effects.config # appConfig
          THEN setConfig(appConfig)
          ELSE UNCHANGED cpuVars
    /\ IF ~mounted
          THEN /\ frames' = Cancel(frames, requestRef)
               /\ UNCHANGED <<requestRef, handles>>
          ELSE IF effects.animate # animate.version
          THEN /\ handles' = handles + 1
               /\ frames' = Cancel(frames, requestRef) \cup {[id |-> handles', animate |-> animate]}
               /\ requestRef' = handles'
          ELSE UNCHANGED <<frames, requestRef, handles>>
    /\ appOp' = [name |-> "effects"]
    /\ UNCHANGED <<appConfig, insightVars, mounted, animate, gpuVars>>

\* the App has mounted with the configuration it starts with and its effects have
\* run: the engine is constructed and the first frame is requested
InitFrames ==
    \E c \in {DefaultConfig}, s \in RandomStreams :
        /\ appConfig = c
        /\ InsightIdle
        /\ mounted = TRUE
        /\ animate = [version |-> 0, deps |-> Deps(c)]
        /\ effects = Committed
        /\ handles = 1
        /\ frames = {[id |-> 1, animate |-> animate]}
        /\ requestRef = 1
        /\ appOp = [name |-> "mount"]
        /\ config = c
        /\ width = 12 * Scale
        /\ height = 12 * Scale
        /\ particles = init(c, width, height, s)
        /\ op = [name |-> "constructor"]
        /\ pairForce = <<>>
        /\ ticks = 0
        /\ GpuConstructed(DefaultConfig)

\* what the controls other than the particle-count slider make of cfg: the pause
\* button, the palette buttons, the sliders of the fields animate and the integrator read
FrameEdits(cfg) == { c \in Edits(cfg) : c.particleCount = cfg.particleCount }

NextFrames ==
    \/ \E f \in frames, m \in MouseVals : DeliverFrame(f, m)
    \/ \E c \in FrameEdits(appConfig) : EditConfig(c)
    \/ FlushEffects
    \/ Unmount

SpecFrames == InitFrames /\ [][NextFrames]_vars

----------------------------------------------------------------------------
(* Properties of the sequential engine *)

\* position and velocity of every particle
Kinematics(ps) == [i \in 1..Len(ps) |-> <<ps[i].x, ps[i].y, ps[i].vx, ps[i].vy>>]

\* everything of every particle but its color
Bodies(ps) ==
    [i \in 1..Len(ps) |->
        <<ps[i].id, ps[i].x, ps[i].y, ps[i].vx, ps[i].vy, ps[i].mass, ps[i].radius>>]

InsideX(p) == p.radius <= p.x /\ p.x <= width - p.radius

InsideY(p) == p.radius <= p.y /\ p.y <= height - p.radius

\* C1 as stated: after any call to step(), paused or not and whatever the domain
\* size, every particle lies in [radius, width - radius] x [radius, height - radius].
C1_AfterAnyStepInside ==
    op.name = "step" => \A i \in 1..Len(particles) : InsideX(particles[i]) /\ InsideY(particles[i])

\* C1, amended: after a call to step() made while not paused, every particle lies in
\* [radius, extent - radius] on each axis on which the domain holds its diameter
\* (2 * radius <= extent); on an axis too narrow for it the particle sits on
\* one of the two walls, radius or extent - radius.
C1_AfterRunningStepInside ==
    (op.name = "step" /\ ~config.paused) =>
        \A i \in 1..Len(particles) :
            LET p == particles[i]
            IN  /\ IF 2 * p.radius <= width THEN InsideX(p)
                   ELSE p.x \in {p.radius, width - p.radius}
                /\ IF 2 * p.radius <= height THEN InsideY(p)
                   ELSE p.y \in {p.radius, height - p.radius}

\* a step has run, unpaused, that put a particle on the far wall of an axis that
\* holds its diameter, in a domain too narrow for it on the other axis
C1_Witness ==
    /\ op.name = "step" /\ ~config.paused
    /\ \E i \in 1..Len(particles) :
          /\ particles[i].y = height - particles[i].radius
          /\ 2 * particles[i].radius < height
          /\ 2 * particles[i].radius > width

\* C3: the store holds exactly config.particleCount particles, in every state.
C3_CountIsParticleCount == Len(particles) = config.particleCount

\* setConfig has just rebuilt the store for a different, non-zero count
C3_Witness ==
    op.name = "setConfig" /\ ~op.sameCount /\ Len(particles) = MaxParticles

\* C4: every particle's radius is sqrt(mass) * 0.5 of its mass, in every state.
C4_RadiusFromMass ==
    \A i \in 1..Len(particles) : particles[i].radius = RadiusOf(particles[i].mass)

\* a step has moved particles, of two different masses
C4_Witness ==
    /\ op.name = "step" /\ ~config.paused /\ Len(particles) = 2
    /\ particles[1].mass # particles[2].mass

\* C5: setConfig with the current count and another palette leaves the number of
\* particles and every particle's id, x, y, vx, vy, mass, radius as they were.
C5_PaletteChangeKeepsBodies ==
    [][(op'.name = "setConfig" /\ op'.sameCount /\ ~op'.samePalette)
          => Bodies(particles') = Bodies(particles)]_vars

\* setConfig has just recolored a store of two particles, one of them to a new color,
\* after a tick
C5_Witness ==
    /\ op.name = "setConfig" /\ op.sameCount /\ ~op.samePalette
    /\ Len(particles) = 2 /\ ticks > 0
    /\ particles[1].color.hue >= 180 /\ config.palette = "cyberpunk"

\* C6: setConfig with the current count and the current palette leaves every
\* particle, color included, as it was.
C6_OtherChangesKeepStore ==
    [][(op'.name = "setConfig" /\ op'.sameCount /\ op'.samePalette)
          => particles' = particles]_vars

\* setConfig has just changed G (and friction, elasticity), after a tick, on a store
\* of two particles
C6_Witness ==
    /\ op.name = "setConfig" /\ op.sameCount /\ op.samePalette /\ op.changed
    /\ Len(particles) = 2 /\ ticks > 0 /\ config.G = 0

\* C17: updateDimensions(width, height) stores the new width and height and changes
\* nothing else: the particles (their number, id, x, y, vx, vy, mass, radius, color)
\* and the configuration are as before, also when particles lie outside the new
\* bounds.
C17_ResizeKeepsParticles ==
    [][op'.name = "updateDimensions" =>
          /\ particles' = particles
          /\ config' = config
          /\ \E d \in DimVals : width' = d[1] /\ height' = d[2]]_vars

\* the domain has just been made smaller than where a particle is
C17_Witness ==
    /\ op.name = "updateDimensions"
    /\ \E i \in 1..Len(particles) : particles[i].x > width \/ particles[i].y > height

----------------------------------------------------------------------------
(* Properties of a tick *)

\* position and velocity of every record of the particle buffer
BufferKinematics(buf) ==
    [i \in 1..Len(buf) |->
        IF buf[i].pos = Indeterminate THEN Indeterminate
        ELSE <<buf[i].pos[1], buf[i].pos[2], buf[i].vel[1], buf[i].vel[2]>>]

\* the transition is a call of step(), applyAttractor() or a frame of the App
TickCall == op'.name \in {"step", "applyAttractor", "frame"}

\* the transition is a step() that ran unpaused
RanStep == op'.name = "step" /\ ticks' = ticks + 1

\* C2: while config.paused is true, step() and applyAttractor() (and so a frame)
\* leave x, y, vx, vy of every particle as they were, and render() encodes no
\* compute pass and leaves the particle buffer as it was.
C2_PausedChangesNothing ==
    [][ /\ (config.paused /\ TickCall) => Kinematics(particles') = Kinematics(particles)
        /\ (gpuConfig.paused /\ gpuOp'.name = "render") =>
              /\ \A k \in 1..Len(encoded') : encoded'[k] # "compute"
              /\ gpuBuffer' = gpuBuffer ]_vars

\* paused, with moving particles under gravity: applyAttractor was called last, and
\* render()
C2_Witness ==
    /\ config.paused /\ gpuConfig.paused
    /\ op.name = "applyAttractor" /\ gpuOp.name = "render"
    /\ Len(particles) = 2 /\ config.G > 0 /\ particles[1].vx # 0
    /\ encoded = <<"render">>

\* the products (G * m_i) * m_j and (G * m_j) * m_i round to the same number
SameProduct(G, mi, mj) == Mul(Mul(G, mi), mj) = Mul(Mul(G, mj), mi)

Negated(f) == <<-f[1], -f[2]>>

\* C7 as stated: in one step() the force term accumulated on i for j is the exact
\* negation of the one accumulated on j for i, for every pair.
C7_ExactNegation ==
    \A i, j \in 1..Len(pairForce) : i # j => pairForce[i][j] = Negated(pairForce[j][i])

\* C7, amended: the two terms are exact negations of each other whenever the
\* product G * m_i * m_j, which the code evaluates as (G * m_i) * m_j for i and as
\* (G * m_j) * m_i for j, rounds to the same number both ways; the velocities
\* written in place by the same loop do not enter.
C7_NegationUpToProduct ==
    \A i, j \in 1..Len(pairForce) :
        (i # j /\ SameProduct(config.G, particles[i].mass, particles[j].mass))
            => pairForce[i][j] = Negated(pairForce[j][i])

\* a step has run on two particles that attract each other and were set moving by it
C7_Witness ==
    /\ op.name = "step" /\ Len(pairForce) = 2 /\ ticks = 1
    /\ SameProduct(config.G, particles[1].mass, particles[2].mass)
    /\ pairForce[1][2][1] > 0 /\ pairForce[2][1][2] < 0
    /\ particles[1].vx > 0 /\ particles[2].vx < 0

\* the force of magnitude G * m_i * m_j / (dx^2 + dy^2 + 20) along the unit vector
\* (dx, dy) / sqrt(dx^2 + dy^2)
ForceAlongUnit(ps, G, i, j) ==
    LET dx == ps[j].x - ps[i].x
        dy == ps[j].y - ps[i].y
        d2 == Mul(dx, dx) + Mul(dy, dy)
        force == Div(Mul(Mul(G, ps[i].mass), ps[j].mass), d2 + Softening * Scale)
    IN  IF d2 = 0 THEN <<0, 0>>
        ELSE <<Div(Mul(force, dx), Sqrt(d2)), Div(Mul(force, dy), Sqrt(d2))>>

\* equal up to two units of the grid on each axis
Near(f, g) == Abs(f[1] - g[1]) <= 2 /\ Abs(f[2] - g[2]) <= 2

\* C8 as stated: the force term step() accumulates on i for j has magnitude
\* G * m_i * m_j / (dx^2 + dy^2 + 20) and the direction of (dx, dy) / sqrt(dx^2 + dy^2),
\* and with friction 0 the step changes the velocity by the summed terms over the mass.
C8_ForceAlongUnitVector ==
    [][RanStep =>
        \A i, j \in 1..Len(particles) :
            i # j => Near(pairForce'[i][j], ForceAlongUnit(particles, config.G, i, j))]_vars

\* the position and velocity one axis is left with by the rule of C9
BounceRule(pos, vel, force, mass, radius, extent, cfg) ==
    LET v == Mul(vel + Div(force, mass), Scale - cfg.friction)
        x == pos + v
    IN  IF x < radius THEN <<radius, Mul(-cfg.collisionElasticity, v)>>
        ELSE IF x > extent - radius THEN <<extent - radius, Mul(-cfg.collisionElasticity, v)>>
        ELSE <<x, v>>

\* C9: in step(), on each axis by itself: a position advanced below radius becomes
\* radius, one advanced above extent - radius becomes extent - radius, and in both
\* cases the velocity of that axis becomes -collisionElasticity times its value after
\* friction; otherwise both are left as integrated.  The other axis plays no part.
C9_BouncePerAxis ==
    [][RanStep =>
        \A i \in 1..Len(particles) :
            LET p == particles[i]
                q == particles'[i]
                fx == SumAxis(pairForce'[i], 1, Len(particles))
                fy == SumAxis(pairForce'[i], 2, Len(particles))
            IN  /\ <<q.x, q.vx>> = BounceRule(p.x, p.vx, fx, p.mass, p.radius, width, config)
                /\ <<q.y, q.vy>> = BounceRule(p.y, p.vy, fy, p.mass, p.radius, height, config)]_vars

\* the particle of radius 1 that was at x = radius - 1 with vx = -2, elasticity 0.5,
\* friction 0, after one step: x = radius, vx = +1, y and vy as they were
C9_Witness ==
    /\ op.name = "step" /\ ticks = 1 /\ Len(particles) = 1
    /\ config.collisionElasticity = Half /\ config.friction = 0
    /\ particles[1].radius = Scale
    /\ particles[1].x = particles[1].radius /\ particles[1].vx = Scale
    /\ particles[1].y = 6 * Scale /\ particles[1].vy = 0

\* C10 as stated: from equal particles, configuration, domain and pointer, one frame
\* of the sequential engine and one render() of the parallel engine leave every
\* particle with the same position and velocity (where what the dispatch leaves is
\* determined at all).
C10_StrategiesAgree ==
    ( /\ op.name = "frame" /\ ticks = 1
      /\ gpuOp.name = "render" /\ gpuTicks = 1 /\ gpuOp.accesses # "any"
      /\ op.mouse = gpuOp.mouse )
        => Kinematics(particles) = BufferKinematics(gpuBuffer)

\* the velocity of one axis after gravity and friction, before the walls
Integrated(vel, force, mass, cfg) == Mul(vel + Div(force, mass), Scale - cfg.friction)

\* the velocity vel a step leaves on an axis points into the domain or is zero if the
\* step clamped the position, which it had advanced to x, at an edge
PointsInward(x, vel, radius, extent) ==
    /\ x < radius => vel >= 0
    /\ (x >= radius /\ x > extent - radius) => vel <= 0

\* C22 as stated: whenever step() clamps a particle at an edge, the velocity of that
\* axis after the step points into the domain or is zero: not negative at the near
\* edge, not positive at the far edge.
C22_ClampedPointsInward ==
    [][RanStep =>
        \A i \in 1..Len(particles) :
            LET p == particles[i]
                q == particles'[i]
                fx == SumAxis(pairForce'[i], 1, Len(particles))
                fy == SumAxis(pairForce'[i], 2, Len(particles))
            IN  /\ PointsInward(p.x + Integrated(p.vx, fx, p.mass, config), q.vx, p.radius, width)
                /\ PointsInward(p.y + Integrated(p.vy, fy, p.mass, config), q.vy, p.radius, height)
       ]_vars

\* vx and vy of every particle
Velocities(ps) == [i \in 1..Len(ps) |-> <<ps[i].vx, ps[i].vy>>]

\* C23: with G = 0, friction in [0, 1) and collisionElasticity in [0, 1], a step()
\* leaves |vx| and |vy| of every particle no larger than they were, and
\* updateDimensions and a setConfig that keeps the count leave the velocities as
\* they were: without applyAttractor no speed ever increases.
C23_SpeedNeverIncreases ==
    [][(/\ config.G = 0 /\ config'.G = 0
        /\ 0 <= config.friction /\ config.friction < Scale
        /\ 0 <= config.collisionElasticity /\ config.collisionElasticity <= Scale) =>
          /\ op'.name = "step" =>
                \A i \in 1..Len(particles) :
                    /\ Abs(particles'[i].vx) <= Abs(particles[i].vx)
                    /\ Abs(particles'[i].vy) <= Abs(particles[i].vy)
          /\ (op'.name = "updateDimensions" \/ (op'.name = "setConfig" /\ op'.sameCount)) =>
                Velocities(particles') = Velocities(particles)]_vars

\* with G = 0, two particles of which the first moves: a step with friction has run
\* after the domain had been resized
C23_Witness ==
    /\ op.name = "step" /\ ticks = 1 /\ config.G = 0 /\ config.friction > 0
    /\ Len(particles) = 2 /\ particles[1].vx # 0
    /\ width = 1 * Scale

----------------------------------------------------------------------------
(* Properties of the insight request *)

\* C21: getPhysicsInsight never rejects.  When generateContent rejects, its response
\* has no text, or the text is not valid JSON, the promise resolves to the fallback
\* insight; when the text is a JSON text, it resolves to the value the text denotes.
C21_NeverRejects ==
    [][appOp'.name = "settled" =>
          /\ appOp'.outcome.settled = "resolved"
          /\ (\/ appOp'.response.kind = "rejects"
              \/ ~appOp'.response.hasText
              \/ appOp'.response.text = <<>>
              \/ appOp'.response.text \in Malformed) => appOp'.outcome.value = Fallback
          /\ \A d \in Documents :
                (appOp'.response.hasText /\ appOp'.response.text = d.text) =>
                    appOp'.outcome.value = d.value]_vars

\* a response whose text is cut short has been answered by the fallback, which the
\* App shows
C21_Witness ==
    /\ appOp.name = "settled"
    /\ appOp.response.hasText /\ appOp.response.text \in Malformed
    /\ Len(appOp.response.text) > 3
    /\ appOp.outcome = Resolved(Fallback)
    /\ insight = Fallback

\* C24: whenever loadingInsight is true it is false again later, given that every call
\* of generateContent settles; and at no time is more than one call of
\* getPhysicsInsight outstanding.
C24_LoadingEnds ==
    /\ [](Len(calls) <= 1)
    /\ [](loadingInsight => <>(~loadingInsight))

\* a request whose generateContent rejected has ended: loadingInsight is false again
C24_Witness ==
    /\ appOp.name = "settled" /\ appOp.response.kind = "rejects"
    /\ ~loadingInsight /\ calls = <<>>

----------------------------------------------------------------------------
(* Properties of the animation loop *)

\* the particles one animate() leaves: applyAttractor if the pointer is active, then
\* one step()
OneFrame(ps, cfg, m, w, h) ==
    step(IF m.active THEN applyAttractor(ps, cfg, m.x, m.y, cfg.mouseStrength) ELSE ps,
         cfg, w, h).ps

\* C25: at any time at most one animation-frame callback is pending, whatever the
\* order of frames, of configuration changes that recreate animate, and of the
\* unmount: once the effects of a commit have run, the pending callback is the animate
\* of that commit, with its id in requestRef, and after the cleanup of an unmount none
\* is pending.  A frame delivered to the mounted App runs step() once, and after the
\* unmount no step() runs.
C25_OneFrameChain ==
    /\ [](/\ Cardinality(frames) <= 1
          /\ (mounted /\ effects = Committed) =>
                frames = {[id |-> requestRef, animate |-> animate]}
          /\ (~mounted /\ effects = Committed) => frames = {})
    /\ [][/\ (appOp'.name = "frame" /\ mounted) =>
                /\ appOp'.steps = 1
                /\ particles' = OneFrame(particles, config, op'.mouse, width, height)
                /\ ticks' = IF config.paused THEN ticks ELSE ticks + 1
          /\ ~mounted =>
                /\ UNCHANGED <<particles, ticks>>
                /\ appOp'.name = "frame" => appOp'.steps = 0]_vars

\* frames have run before and after a change that recreated animate, the App has been
\* unmounted and the cleanup of its animation effect has run
C25_Witness ==
    /\ ~mounted /\ effects = Committed /\ frames = {}
    /\ animate.version >= 1 /\ handles >= 4 /\ ticks >= 2

----------------------------------------------------------------------------
(* Properties of the parallel engine *)

\* the transition is a render() that dispatched the kernel, and what the dispatch
\* leaves is determined
RanDispatch == gpuOp'.name = "render" /\ gpuTicks' = gpuTicks + 1 /\ gpuOp'.accesses # "any"

\* C11 as stated: in one dispatch, in whatever order the invocations run, every load
\* of another particle's record yields its value from before the dispatch: the buffer
\* the dispatch leaves is the one in which every invocation computed on the buffer
\* as it was before the dispatch.
C11_ReadsSeePreTick ==
    [][RanDispatch =>
        gpuBuffer' = Dispatch(gpuBuffer, gpuOp'.params, <<>>,
                              InvokedInside(gpuBuffer, gpuConfig, gpuOp'.params))]_vars

\* position, velocity and mass of every record of the particle buffer
BufferBodies(buf) == [i \in 1..Len(buf) |-> <<buf[i].pos, buf[i].vel, buf[i].mass>>]

\* C12 as stated: WebGpuEngine.setConfig with a configuration that differs from the
\* one before only in palette leaves position, velocity and mass of every record of
\* the particle buffer as they were.
C12_PaletteChangeKeepsRecords ==
    [][(gpuOp'.name = "setConfig" /\ gpuOp'.sameCount /\ ~gpuOp'.samePalette)
          => BufferBodies(gpuBuffer') = BufferBodies(gpuBuffer)]_vars

\* the index of the Float32Array at which render() writes each member of the
\* parameter block, and setupBuffers each member of a record
HostParamIndex ==
    [ G |-> 0, friction |-> 1, mousePos |-> 2, mouseStrength |-> 4, particleCount |-> 5,
      width |-> 6, height |-> 7, dt |-> 8, elasticity |-> 9 ]

HostRecordIndex == [pos |-> 0, vel |-> 2, mass |-> 4, padding |-> 5, color |-> 8]

\* the values render() means the kernel to see
HostIntended(cfg, m, w, h) ==
    [ G |-> cfg.G, friction |-> cfg.friction, mousePos |-> <<m.x, m.y>>,
      mouseStrength |-> IF m.active THEN cfg.mouseStrength ELSE 0,
      particleCount |-> cfg.particleCount, width |-> w, height |-> h, dt |-> Half,
      elasticity |-> cfg.collisionElasticity ]

\* every member of the struct lies at the byte offset of the float the host writes
\* for it
SameOffsets(fields, index) ==
    \A k \in 1..Len(fields) : OffsetOf(fields, k) = 4 * index[fields[k].name]

\* C13 as stated: the kernel declares every member of the 48-byte record and of the
\* parameter block at the byte offset at which the host writes it, and every value
\* the kernel reads of the parameter block is the value the host wrote, the particle
\* count read as an unsigned integer being config.particleCount.
C13_KernelReadsWhatHostWrote ==
    (gpuOp.name = "render" /\ gpuOp.accesses # "none") =>
        /\ ParticleStride = 48
        /\ SameOffsets(ParticleFields, HostRecordIndex)
        /\ SameOffsets(ParamFields, HostParamIndex)
        /\ gpuOp.params = HostIntended(gpuConfig, gpuOp.mouse, gpuWidth, gpuHeight)

\* init() rejected because there was no adapter or because requestDevice rejected
NoDevice == gpuInit \in {"no adapter", "no device"}

\* C14: when there is no adapter, or requestDevice fails, init() rejects, leaves the
\* engine without device, pipelines and buffers and the sequential engine as it was
\* (no fallback); every later render() and setConfig() leaves the engine without
\* them: no buffer is created or written, no pass encoded, nothing drawn.
C14_RejectedInitStaysUninitialized ==
    [][ /\ (gpuInit = "not called" /\ NoDevice') =>
              /\ gpuOp'.name = "init" /\ gpuOp'.rejected
              /\ ~gpuDevice' /\ ~gpuReady' /\ gpuBuffer' = <<>>
              /\ UNCHANGED cpuVars
        /\ (NoDevice /\ gpuOp'.name \in {"render", "setConfig"}) =>
              /\ ~gpuDevice' /\ ~gpuReady' /\ gpuBuffer' = <<>>
              /\ UNCHANGED <<encoded, drawn, gpuTicks, cpuVars>> ]_vars

\* requestDevice rejected; later setConfig was called with another palette
C14_Witness ==
    /\ gpuInit = "no device"
    /\ gpuOp.name = "setConfig" /\ ~gpuOp.samePalette
    /\ ~gpuDevice /\ gpuBuffer = <<>> /\ encoded = <<>>

\* C15: the command buffer a render() submits holds its compute pass, if it has one,
\* once and before its render pass, and the render pass loads the particle buffer as
\* the whole compute pass left it.
C15_ComputeBeforeRender ==
    [][(gpuOp'.name = "render" /\ gpuOp'.accesses # "none") =>
          /\ encoded' = IF gpuConfig.paused THEN <<"render">> ELSE <<"compute", "render">>
          /\ drawn' = RenderPass(gpuBuffer', gpuConfig)]_vars

\* a render() has dispatched the kernel on one particle, which moved, and has drawn
\* the record the dispatch stored
C15_Witness ==
    /\ gpuOp.name = "render" /\ gpuOp.accesses = "zeros" /\ gpuTicks = 1
    /\ encoded = <<"compute", "render">>
    /\ Len(drawn) = 1 /\ Len(gpuBuffer) >= 1
    /\ gpuBuffer[1].pos # Indeterminate /\ drawn[1].pos # Indeterminate
    /\ drawn[1] = gpuBuffer[1] /\ gpuBuffer[1].vel # <<0, 0>>

\* C19 as stated: whatever the configured particleCount, every index a render()
\* draws as an instance, dispatches an invocation for (past the kernel's guard), or
\* runs the kernel's loop over lies inside the particle buffer.
C19_IndicesInsideBuffer ==
    (gpuOp.name = "render" /\ gpuOp.accesses # "none") =>
        /\ gpuConfig.particleCount <= Len(gpuBuffer)
        /\ Len(drawn) <= Len(gpuBuffer)
        /\ HasCompute(encoded) =>
              /\ Invoked(gpuConfig, gpuOp.params) <= Len(gpuBuffer)
              /\ Invoked(gpuConfig, gpuOp.params) > 0 =>
                    gpuOp.params.particleCount <= Len(gpuBuffer)
              /\ gpuOp.accesses = "inside"

----------------------------------------------------------------------------
(* Properties of a frame and of the attractor *)

\* the velocity change <<dvx, dvy>> of a particle at (px, py) for an attractor at
\* (x, y): strength * m / (d^2 + 100) along (dx, dy) / sqrt(d^2 + 100), over m
AttractorChange(px, py, mass, x, y, strength) ==
    LET d2 == Mul(x - px, x - px) + Mul(y - py, y - py) + 100 * Scale
        force == Div(Mul(strength, mass), d2)
    IN  << Div(Div(Mul(force, x - px), Sqrt(d2)), mass),
           Div(Div(Mul(force, y - py), Sqrt(d2)), mass) >>

\* what the attractor of a frame with pointer m adds to the velocity of p
FrameAttractor(p, m, cfg) ==
    IF m.active THEN AttractorChange(p.x, p.y, p.mass, m.x, m.y, cfg.mouseStrength)
    ELSE <<0, 0>>

\* the transition is a frame of the App that ran unpaused
RanFrame == op'.name = "frame" /\ ticks' = ticks + 1

\* C16: in a frame that is not paused every force term is computed from the
\* positions of before the frame; the velocity of a particle is its old velocity
\* plus the attractor's change (pointer active) plus force over mass, then times
\* 1 - friction; the position advances by that velocity and is then resolved against
\* the walls; and the renderer reads the positions so resolved.
C16_FramePhasesInOrder ==
    [][RanFrame =>
        /\ \A i, j \in 1..Len(particles) :
                i # j => pairForce'[i][j] = PairForce(particles, config.G, i, j)
        /\ \A i \in 1..Len(particles) :
                LET p == particles[i]
                    q == particles'[i]
                    a == FrameAttractor(p, op'.mouse, config)
                    fx == SumAxis(pairForce'[i], 1, Len(particles))
                    fy == SumAxis(pairForce'[i], 2, Len(particles))
                IN  /\ <<q.x, q.vx>> =
                          BounceRule(p.x, p.vx + a[1], fx, p.mass, p.radius, width, config)
                    /\ <<q.y, q.vy>> =
                          BounceRule(p.y, p.vy + a[2], fy, p.mass, p.radius, height, config)
        /\ op'.shown = Positions(particles')]_vars

\* a frame with the pointer active has run on two particles that attract each other:
\* both moved, and the renderer read where they are now
C16_Witness ==
    /\ op.name = "frame" /\ op.mouse.active /\ ticks = 1
    /\ Len(particles) = 2 /\ pairForce[1][2] # <<0, 0>>
    /\ config.friction > 0 /\ particles[1].vx # 0
    /\ op.shown = <<<<particles[1].x, particles[1].y>>, <<particles[2].x, particles[2].y>>>>

\* C18 as stated: whatever the particles, two of them at the same place and one at
\* the attractor point included, no division of the force computation has the
\* divisor zero: not in step(), not in applyAttractor(), not in the kernel.
C18_DivisorsNonZero ==
    [][ /\ (RanStep \/ RanFrame) =>
              \A i, j \in 1..Len(particles) : i # j => 0 \notin StepDivisors(particles, i, j)
        /\ (op'.name = "applyAttractor" /\ ticks' = ticks + 1) =>
              \A i \in 1..Len(particles) :
                  0 \notin AttractorDivisors(particles[i], op'.x, op'.y)
        /\ (RanFrame /\ op'.mouse.active) =>
              \A i \in 1..Len(particles) :
                  0 \notin AttractorDivisors(particles[i], op'.mouse.x, op'.mouse.y)
        /\ (gpuOp'.name = "render" /\ gpuTicks' = gpuTicks + 1) =>
              \A index \in 1..InvokedInside(gpuBuffer, gpuConfig, gpuOp'.params) :
                  0 \notin KernelDivisors(gpuBuffer, gpuOp'.params, index) ]_vars

\* -1, 0 or 1 as a is negative, zero or positive
Sgn(a) == IF a < 0 THEN -1 ELSE IF a > 0 THEN 1 ELSE 0

\* C20: applyAttractor(x, y, strength), not paused, changes vx and vy of the
\* particles and nothing else; the change of each is strength * m / (d^2 + 100) along
\* (dx, dy) / sqrt(d^2 + 100), over m, and has the sign of strength times the
\* coordinate of the point minus that of the particle (zero for strength 0); in a
\* frame without friction a particle that meets no wall ends with its old velocity
\* plus the attractor's change plus the change from mutual gravity.
C20_AttractorAddsToVelocity ==
    [][ /\ (op'.name = "applyAttractor" /\ ticks' = ticks + 1) =>
              /\ Len(particles') = Len(particles)
              /\ \A i \in 1..Len(particles) :
                    LET p == particles[i]
                        q == particles'[i]
                        d == AttractorChange(p.x, p.y, p.mass, op'.x, op'.y, op'.strength)
                    IN  /\ [q EXCEPT !.vx = p.vx, !.vy = p.vy] = p
                        /\ q.vx - p.vx = d[1] /\ q.vy - p.vy = d[2]
                        /\ Sgn(q.vx - p.vx) = Sgn(op'.strength) * Sgn(op'.x - p.x)
                        /\ Sgn(q.vy - p.vy) = Sgn(op'.strength) * Sgn(op'.y - p.y)
        /\ (RanFrame /\ op'.mouse.active /\ config.friction = 0) =>
              \A i \in 1..Len(particles) :
                    LET p == particles[i]
                        q == particles'[i]
                        a == FrameAttractor(p, op'.mouse, config)
                        fx == SumAxis(pairForce'[i], 1, Len(particles))
                        fy == SumAxis(pairForce'[i], 2, Len(particles))
                        vx == p.vx + a[1] + Div(fx, p.mass)
                        vy == p.vy + a[2] + Div(fy, p.mass)
                    IN  /\ (p.radius <= p.x + vx /\ p.x + vx <= width - p.radius) => q.vx = vx
                        /\ (p.radius <= p.y + vy /\ p.y + vy <= height - p.radius) => q.vy = vy
              ]_vars

\* applyAttractor with negative strength has pushed the particle at rest at (4, 4)
\* away from the point (6, 3): to the left and down the y axis
C20_Witness ==
    /\ op.name = "applyAttractor" /\ op.strength < 0 /\ ticks = 1
    /\ op.x = 6 * Scale /\ op.y = 3 * Scale
    /\ Len(particles) = 2 /\ particles[1].x = 4 * Scale /\ particles[1].y = 4 * Scale
    /\ particles[1].vx < 0 /\ particles[1].vy > 0

====
